---- MODULE Spec2Model ----
(***************************************************************************)
(* The training loop of train.py (function training) as a state machine:   *)
(* one action per statement group of the loop body, in program order.      *)
(* The population manager (GaussianModel.densify_and_prune, reset_opacity, *)
(* add_densification_stats, findKNN, restore) lives in scene/ and is       *)
(* modelled from its contract; the scheduler is modelled from train.py.    *)
(***************************************************************************)
EXTENDS Integers, Sequences, FiniteSets, TLC

\* ------------------------------------------------------------------ bounds
\* number of loop iterations a run executes after its starting point
Horizon == 3
\* largest population a render may still report growth gradients for
MaxN == 3

\* ------------------------------------------------------- program constants
RefreshInterval == 3000   \* train.py:173
ShInterval == 1000        \* train.py:75
SizeThreshold == 20       \* train.py:165
MaxShDegree == 3          \* dataset.sh_degree, train.py:45

\* Python's None; optional values are <<>> or a one-element sequence
None == <<>>
Some(v) == <<v>>

\* ------------------------------------------------- abstract value domains
\* opacity levels: 0 below the pruning floor, 1 the reset floor, 2 opaque
OpacityFloor == 1
\* scale levels: 1 small (clone), 2 above percent_dense*extent (split),
\* 3 above the world-size pruning fraction of the extent
DenseScale == 1
\* opt.densify_grad_threshold, in the unit of the gradient norms below
densify_grad_threshold == 2
\* positional-gradient norms a backward pass may produce (below / above the
\* threshold) and screen radii the rasterizer may report (below / above 20)
GradNorms == {1, 3}
RadiusOf(scaling) == IF scaling > DenseScale THEN 25 ELSE 5

VARIABLES
    opt,                \* OptimizationParams: iterations, densify_*, intervals
    white_background,   \* dataset.white_background
    num_max,            \* --num_max (None or a number)
    first_iter,         \* 0, or the counter read from the checkpoint
    iteration,          \* loop variable
    pc,                 \* position in the loop body
    active_sh_degree,   \* gaussians.active_sh_degree
    xyz,                \* PrimitiveSet: sequence of [opacity, scaling]
    xyz_gradient_accum, \* GradientStats: gradient-norm sum
    denom,              \* GradientStats: visibility count
    max_radii2D,        \* GradientStats: max screen radius
    optimizer,          \* OptimizerState: one momentum entry per primitive
    checkpoint_iterations, \* --checkpoint_iterations
    KNN_index,          \* None or Some([n, epoch]) built by findKNN
    epoch,              \* number of index-changing events so far
    render_pkg,         \* visibility_filter, radii of this iteration's render
    viewspace_grad,     \* viewspace_point_tensor.grad norms: None before backward
    geo,                \* this iteration's Geo Loss: "skipped" or the graph used
    trace,              \* operations performed so far in this iteration
    saved,              \* checkpoints written: set of [iteration, n, optimizer]
    n_created,          \* line 133 / 166
    n_deleted,          \* line 133 / 166
    history,            \* completed iterations of this run: [iteration, events]
    baseline,           \* None, or Some(history of the run the checkpoint came from)
    testing_iterations, \* --test_iterations, a list
    tb_writer,          \* line 44: TRUE when a SummaryWriter was created
    WANDB_FOUND,        \* lines 33-37: TRUE when wandb could be imported
    cum_created,        \* line 66 / 178
    cum_deleted,        \* line 65 / 177
    logged              \* metric names the telemetry sinks have received

cfg == <<opt, white_background, num_max, first_iter, checkpoint_iterations,
        testing_iterations, tb_writer, WANDB_FOUND>>
telemetry == <<cum_created, cum_deleted, logged>>
stats == <<xyz_gradient_accum, denom, max_radii2D>>
population == <<xyz, xyz_gradient_accum, denom, max_radii2D, optimizer>>
vars == <<opt, white_background, num_max, first_iter, checkpoint_iterations,
          iteration, pc, active_sh_degree, xyz, xyz_gradient_accum, denom,
          max_radii2D, optimizer, KNN_index, epoch, render_pkg,
          viewspace_grad, geo, trace, saved, n_created, n_deleted,
          history, baseline, testing_iterations, tb_writer, WANDB_FOUND, cum_created,
          cum_deleted, logged>>

\* ------------------------------------------------------------ sequence helpers
Has(s, e) == \E i \in DOMAIN s : s[i] = e
Count(s, e) == Cardinality({i \in DOMAIN s : s[i] = e})
\* position of the first occurrence of e in s (0 when absent)
Pos(s, e) == IF Has(s, e) THEN CHOOSE i \in DOMAIN s : s[i] = e /\ \A j \in 1..(i-1) : s[j] # e ELSE 0
Max2(a, b) == IF a >= b THEN a ELSE b
Zeros(n) == [i \in 1..n |-> 0]
\* s[mask]: the elements of s at the positions where mask is true
RECURSIVE Gather(_, _)
Gather(s, mask) ==
    IF s = <<>> \/ mask = <<>> THEN <<>>
    ELSE (IF Head(mask) THEN <<Head(s)>> ELSE <<>>) \o Gather(Tail(s), Tail(mask))

\* ------------------------------------------------------------ configuration
\* A run starts fresh (first_iter = 0) or from a checkpoint written shortly
\* before the first post-window refresh point.
FirstIters == {0, RefreshInterval - (Horizon - 1)}
Intervals == {1, 2, RefreshInterval}
OptParams(f) ==
    [iterations : {f + Horizon, f} \cup (IF f > 0 THEN {f - 1} ELSE {}),
     densify_from_iter : {f, f + 1, f + Horizon - 1},
     densify_until_iter : {f + 1, f + 2, f + Horizon, f + Horizon + 1},
     densification_interval : {1, 2},
     opacity_reset_interval : Intervals]

\* the scene-derived initial point cloud (or the population of the checkpoint)
InitialXyz == <<[opacity |-> 2, scaling |-> 1], [opacity |-> 2, scaling |-> 3]>>

\* state after lines 43-66: construction, optional restore, KNN_index = None,
\* whatever telemetry sinks the imports of lines 27-37 found
InitTraining ==
    /\ first_iter \in FirstIters
    /\ opt \in OptParams(first_iter)
    /\ white_background \in BOOLEAN
    /\ num_max \in {None, Some(1), Some(2)}
    /\ checkpoint_iterations \in {{first_iter + 1, opt.iterations},
                                 {opt.iterations - 1, opt.iterations}}
    /\ testing_iterations = <<first_iter + 1, RefreshInterval>>
    /\ iteration = first_iter
    /\ pc = "start"
    /\ active_sh_degree = IF first_iter \div ShInterval < MaxShDegree
                          THEN first_iter \div ShInterval ELSE MaxShDegree
    /\ xyz = InitialXyz
    /\ xyz_gradient_accum = Zeros(Len(InitialXyz))
    /\ denom = Zeros(Len(InitialXyz))
    /\ max_radii2D = Zeros(Len(InitialXyz))
    /\ optimizer = Zeros(Len(InitialXyz))
    /\ KNN_index = None
    /\ epoch = IF first_iter = 0 THEN 0 ELSE 1
    /\ render_pkg = None
    /\ viewspace_grad = None
    /\ geo = None
    /\ trace = <<>>
    /\ saved = {}
    /\ n_created = 0
    /\ n_deleted = 0
    /\ history = <<>>
    /\ baseline = None
    /\ cum_created = 0
    /\ cum_deleted = 0
    /\ logged = {}

\* a run with neither telemetry sink installed, checkpointing at its last
\* two iterations
Init ==
    /\ InitTraining
    /\ checkpoint_iterations = {opt.iterations - 1, opt.iterations}
    /\ tb_writer = FALSE
    /\ WANDB_FOUND = FALSE

\* ------------------------------------------------------- scheduler conditions
\* line 75
ShDue(i) == i % ShInterval = 0
\* a slip of line 159: the window end is included
InDensifyBlockInclusive(i) == i <= opt.densify_until_iter

\* line 159
InDensifyBlock(i) == i < opt.densify_until_iter
\* a slip of line 164: the window start is included
DensifyDueInclusive(i) == i >= opt.densify_from_iter /\ i % opt.densification_interval = 0

\* line 164
DensifyDue(i) == i > opt.densify_from_iter /\ i % opt.densification_interval = 0
\* line 165
size_threshold(i) == IF i > opt.opacity_reset_interval THEN Some(SizeThreshold) ELSE None
\* a slip of line 170: the white-background trigger is dropped
ResetDueIntervalOnly(i) == i % opt.opacity_reset_interval = 0

\* line 170
ResetDue(i) ==
    \/ i % opt.opacity_reset_interval = 0
    \/ (white_background /\ i = opt.densify_from_iter)
\* a slip of line 172: the window end is included
RefreshDueInclusive(i) == i >= opt.densify_until_iter /\ i % RefreshInterval = 0

\* lines 172-173
RefreshDue(i) == i > opt.densify_until_iter /\ i % RefreshInterval = 0
\* a slip of line 185: the final iteration steps too
StepDueInclusive(i) == i <= opt.iterations

\* line 185
StepDue(i) == i < opt.iterations
\* line 189
CheckpointDue(i) == i \in checkpoint_iterations

\* a slip of line 167: no rebuild after densify_and_prune
AfterDensifyAndPruneNoRebuild(i) == IF ResetDue(i) THEN "reset" ELSE "optimizer"

\* a slip of line 167: the rebuild is made only when the call created primitives
AfterDensifyAndPruneIfGrown(i) ==
    IF n_created' > 0 THEN "findKNN" ELSE IF ResetDue(i) THEN "reset" ELSE "optimizer"

\* line 167 follows line 166 unconditionally
AfterDensifyAndPrune(i) == "findKNN"
\* a slip of lines 170-187: the opacity reset is made again after the step
AfterOptimizerLateReset(i) ==
    IF i % opt.opacity_reset_interval = 0 /\ Count(trace', "reset") < 2
    THEN "reset" ELSE "checkpoint"

\* line 189 follows the optimizer step
AfterOptimizer(i) == "checkpoint"
\* where control goes after the reset-opacity test of line 170
AfterDensify(i) == IF ResetDue(i) THEN "reset" ELSE "optimizer"
\* where control goes after the statistics update of lines 161-162
AfterStats(i) == IF DensifyDue(i) THEN "densify" ELSE AfterDensify(i)
\* a slip of lines 159-164: the statistics update is left out
AfterReportNoStats(i) ==
    IF InDensifyBlock(i) THEN AfterStats(i)
    ELSE IF RefreshDue(i) THEN "refresh"
    ELSE "optimizer"

\* where control goes at line 159 / 172
AfterReport(i) ==
    IF InDensifyBlock(i) THEN "stats"
    ELSE IF RefreshDue(i) THEN "refresh"
    ELSE "optimizer"

\* ------------------------------------------------------------------ actions
\* the scheduled operations among those an iteration performed
SchedulerEvents == {"oneupSH", "densify", "findKNN", "reset", "refresh"}
Events(tr) == {tr[k] : k \in DOMAIN tr} \cap SchedulerEvents

\* a slip of line 68: the upper bound of line 62's range is used
LoopContinuesExclusive(i) == i + 1 < opt.iterations

\* line 68: the next value of range(first_iter, opt.iterations + 1) exists
LoopContinues(i) == i + 1 <= opt.iterations

\* line 68: for iteration in range(first_iter, opt.iterations + 1)
LoopHead ==
    /\ pc \in {"start", "end"}
    /\ IF LoopContinues(iteration)
       THEN /\ iteration' = iteration + 1
            /\ pc' = "render"
       ELSE /\ iteration' = iteration
            /\ pc' = "done"
    /\ trace' = <<>>
    /\ geo' = None
    /\ render_pkg' = None
    /\ viewspace_grad' = None
    /\ history' = IF pc = "end"
                  THEN Append(history, [iteration |-> iteration, events |-> Events(trace)])
                  ELSE history
    /\ UNCHANGED <<cfg, telemetry, baseline, active_sh_degree, population, KNN_index, epoch, saved, n_created, n_deleted>>

\* visibility masks a render may return for a population of n primitives
VisMasks(n) == {[i \in 1..n |-> FALSE], [i \in 1..n |-> TRUE], [i \in 1..n |-> i = 1]}

\* lines 72-97: learning rate, SH degree, camera choice, render
Render ==
    /\ pc = "render"
    /\ active_sh_degree' = IF ShDue(iteration) /\ active_sh_degree < MaxShDegree
                           THEN active_sh_degree + 1 ELSE active_sh_degree
    /\ \E vis \in VisMasks(Len(xyz)) :
          render_pkg' = Some([visibility_filter |-> vis,
                              radii |-> [i \in 1..Len(xyz) |->
                                           IF vis[i] THEN RadiusOf(xyz[i].scaling) ELSE 0]])
    /\ trace' = trace \o (IF ShDue(iteration) THEN <<"oneupSH">> ELSE <<>>) \o <<"render">>
    /\ pc' = "loss"
    /\ UNCHANGED <<cfg, telemetry, history, baseline, iteration, population, KNN_index, epoch, viewspace_grad, geo, saved, n_created, n_deleted>>

\* line 116: visibility_filter.sum() > 0
AnyVisible(vis) == \E i \in DOMAIN vis : vis[i]

\* lines 99-127: photometric loss, and the Geo Loss when a graph exists
Loss ==
    /\ pc = "loss"
    /\ geo' = IF KNN_index # None /\ AnyVisible(render_pkg[1].visibility_filter)
              THEN Some([graph |-> KNN_index[1],
                         pop_epoch |-> epoch,
                         mask_len |-> Len(render_pkg[1].visibility_filter)])
              ELSE None
    /\ trace' = Append(trace, "loss")
    /\ pc' = "backward"
    /\ UNCHANGED <<cfg, telemetry, history, baseline, iteration, active_sh_degree, population, KNN_index, epoch,
                   render_pkg, viewspace_grad, saved, n_created, n_deleted>>

\* line 129: loss.backward() fills viewspace_point_tensor.grad
Backward ==
    /\ pc = "backward"
    /\ \E g \in (IF Len(xyz) <= MaxN THEN GradNorms ELSE {1}) :
          viewspace_grad' = Some([i \in 1..Len(xyz) |->
                                    IF render_pkg[1].visibility_filter[i] THEN g ELSE 0])
    /\ trace' = Append(trace, "backward")
    /\ pc' = "report"
    /\ UNCHANGED <<cfg, telemetry, history, baseline, iteration, active_sh_degree, population, KNN_index, epoch,
                   render_pkg, geo, saved, n_created, n_deleted>>

\* the image names of scene.getTestCameras() and scene.getTrainCameras()
TestCameras == <<"e0">>
TrainCameras == <<"t0">>
\* line 231: [cameras[idx] for idx in range(0, len(cameras), 5)]
EveryFifth(cameras) ==
    [k \in 1..((Len(cameras) + 4) \div 5) |-> cameras[5 * (k - 1) + 1]]
\* lines 229-232
validation_configs ==
    <<[name |-> "test_full", cameras |-> TestCameras],
      [name |-> "train_every_5th", cameras |-> EveryFifth(TrainCameras)]>>

\* lines 235-275: the names one validation config sends at a test iteration
ConfigReport(config, tb, found, i, tests) ==
    IF config.cameras = <<>> THEN {}
    ELSE (IF tb
          THEN UNION {{config.name \o "_view_" \o config.cameras[k] \o "/render"}
                      \cup (IF i = tests[1]
                            THEN {config.name \o "_view_" \o config.cameras[k]
                                    \o "/ground_truth"}
                            ELSE {}) :
                      k \in {j \in DOMAIN config.cameras : j - 1 < 5}}
               \cup {config.name \o "/loss_viewpoint - l1_loss",
                     config.name \o "/loss_viewpoint - psnr",
                     config.name \o "/loss_viewpoint - ssim"}
          ELSE {})
         \cup (IF found
               THEN {config.name \o "/psnr", config.name \o "/ssim"}
               ELSE {})

\* lines 215-280: the metric names training_report sends to the sinks
training_report(tb, found, i, tests) ==
    (IF tb THEN {"train_loss_patches/l1_loss", "train_loss_patches/total_loss",
                 "iter_time"}
     ELSE {})
    \cup (IF found THEN {"n_gaussians"} ELSE {})
    \cup (IF \E k \in DOMAIN tests : tests[k] = i
          THEN UNION {ConfigReport(validation_configs[c], tb, found, i, tests) :
                      c \in DOMAIN validation_configs}
               \cup (IF tb THEN {"scene/opacity_histogram", "total_points"} ELSE {})
          ELSE {})

\* lines 151-156: the names of the per-iteration wandb.log in training
WandbTrainLog(found) == IF found THEN {"train/psnr", "train/ssim"} ELSE {}

\* a slip of lines 151-159: the densification block nested under the
\* wandb branch
AfterWandbLogNested(found, next) == IF found THEN next ELSE "optimizer"

\* lines 151-159: line 159 follows the wandb branch whether it was taken or not
AfterWandbLog(found, next) == next

\* lines 131-156 on the training state, with sinks tb and found
ReportTraining(tb, found) ==
    /\ pc = "report"
    /\ trace' = Append(trace, "report")
    /\ n_created' = 0
    /\ n_deleted' = 0
    /\ pc' = AfterWandbLog(found, AfterReport(iteration))
    /\ UNCHANGED <<cfg, history, baseline, iteration, active_sh_degree, population, KNN_index, epoch,
                   render_pkg, viewspace_grad, geo, saved>>

\* lines 131-156: progress bar, training_report, scene.save, wandb.log
Report ==
    /\ ReportTraining(tb_writer, WANDB_FOUND)
    /\ logged' = logged \cup training_report(tb_writer, WANDB_FOUND, iteration,
                                             testing_iterations)
                        \cup WandbTrainLog(WANDB_FOUND)
    /\ UNCHANGED <<cum_created, cum_deleted>>

\* ------------------------------------------------- gradient statistics update
\* a slip of line 161: the gathered maximum replaces the whole array
UpdateMaxRadiiGathered(mr, vf, radii) ==
    Gather([i \in 1..Len(mr) |-> Max2(mr[i], radii[i])], vf)

\* line 161: max_radii2D[vf] = torch.max(max_radii2D[vf], radii[vf])
UpdateMaxRadii(mr, vf, radii) ==
    [i \in 1..Len(mr) |-> IF vf[i] THEN Max2(mr[i], radii[i]) ELSE mr[i]]

\* line 162: add_densification_stats(viewspace_point_tensor, visibility_filter)
AddAccum(accum, vf, g) == [i \in 1..Len(accum) |-> IF vf[i] THEN accum[i] + g[i] ELSE accum[i]]
AddDenom(dn, vf) == [i \in 1..Len(dn) |-> IF vf[i] THEN dn[i] + 1 ELSE dn[i]]

\* lines 161-162, inside "if iteration < opt.densify_until_iter"
Stats ==
    /\ pc = "stats"
    /\ max_radii2D' = UpdateMaxRadii(max_radii2D, render_pkg[1].visibility_filter,
                                     render_pkg[1].radii)
    /\ xyz_gradient_accum' = AddAccum(xyz_gradient_accum, render_pkg[1].visibility_filter,
                                      viewspace_grad[1])
    /\ denom' = AddDenom(denom, render_pkg[1].visibility_filter)
    /\ trace' = Append(trace, "stats")
    /\ pc' = AfterStats(iteration)
    /\ UNCHANGED <<cfg, telemetry, history, baseline, iteration, active_sh_degree, xyz, optimizer, KNN_index, epoch,
                   render_pkg, viewspace_grad, geo, saved, n_created, n_deleted>>

\* ------------------------------------------------------- population manager
\* one row per primitive: the primitive with its statistics and momentum
Rows ==
    [i \in 1..Len(xyz) |->
        [p |-> xyz[i], accum |-> xyz_gradient_accum[i], dn |-> denom[i],
         radius |-> max_radii2D[i], mom |-> optimizer[i]]]

\* a slip of the average: a never-seen primitive counts as high-gradient
AvgGradUnseenHigh(r) ==
    IF r.dn = 0 THEN densify_grad_threshold ELSE r.accum \div r.dn

\* the average positional gradient accum / denom, 0 when the denominator is 0
AvgGrad(r) == IF r.dn = 0 THEN 0 ELSE r.accum \div r.dn

\* step 1: average positional gradient >= threshold
IsCandidate(r, max_grad) == AvgGrad(r) >= max_grad
IsCloneCandidate(r, max_grad) == IsCandidate(r, max_grad) /\ r.p.scaling <= DenseScale
IsSplitCandidate(r, max_grad) == IsCandidate(r, max_grad) /\ r.p.scaling > DenseScale

\* a clone: exact duplicate, momentum copied, statistics zero
CloneOf(r) == [p |-> r.p, accum |-> 0, dn |-> 0, radius |-> 0, mom |-> r.mom]
\* a split child: scale shrunk, other attributes copied, statistics zero
ChildOf(r) ==
    [p |-> [r.p EXCEPT !.scaling = Max2(1, r.p.scaling - 1)],
     accum |-> 0, dn |-> 0, radius |-> 0, mom |-> 0]

RECURSIVE Clones(_, _)
Clones(rows, max_grad) ==
    IF rows = <<>> THEN <<>>
    ELSE (IF IsCloneCandidate(Head(rows), max_grad) THEN <<CloneOf(Head(rows))>> ELSE <<>>)
         \o Clones(Tail(rows), max_grad)

\* a slip of step 3: a split parent replaced by one child only
RECURSIVE ChildrenSingle(_, _)
ChildrenSingle(rows, max_grad) ==
    IF rows = <<>> THEN <<>>
    ELSE (IF IsSplitCandidate(Head(rows), max_grad) THEN <<ChildOf(Head(rows))>> ELSE <<>>)
         \o ChildrenSingle(Tail(rows), max_grad)

RECURSIVE Children(_, _)
Children(rows, max_grad) ==
    IF rows = <<>> THEN <<>>
    ELSE (IF IsSplitCandidate(Head(rows), max_grad)
          THEN <<ChildOf(Head(rows)), ChildOf(Head(rows))>> ELSE <<>>)
         \o Children(Tail(rows), max_grad)

\* steps 1-3: survivors (split parents removed), then clones, then children
Grow(rows, max_grad) ==
    LET keep(r) == ~IsSplitCandidate(r, max_grad)
    IN  SelectSeq(rows, keep) \o Clones(rows, max_grad) \o Children(rows, max_grad)

\* step 4: opacity floor, and the size tests once size_threshold is set
IsPruned(r, max_screen_size) ==
    \/ r.p.opacity < OpacityFloor
    \/ /\ max_screen_size # None
       /\ (r.radius > max_screen_size[1] \/ r.p.scaling > DenseScale + 1)
Prune(rows, max_screen_size) ==
    LET keep(r) == ~IsPruned(r, max_screen_size) IN SelectSeq(rows, keep)

\* step 5: remove the lowest-opacity excess until at the cap
LowestOpacity(rows) ==
    CHOOSE i \in DOMAIN rows :
        /\ \A j \in DOMAIN rows : rows[i].p.opacity <= rows[j].p.opacity
        /\ \A j \in 1..(i-1) : rows[j].p.opacity > rows[i].p.opacity
RemoveAt(rows, i) == SubSeq(rows, 1, i - 1) \o SubSeq(rows, i + 1, Len(rows))
RECURSIVE Cap(_, _)
Cap(rows, cap) ==
    IF cap = None \/ Len(rows) <= cap[1] THEN rows
    ELSE Cap(RemoveAt(rows, LowestOpacity(rows)), cap)

\* gaussians.densify_and_prune(max_grad, 0.05, extent, max_screen_size, num_max):
\* the compacted rows and the counts created and deleted
DensifyAndPrune(rows, max_grad, max_screen_size, cap) ==
    LET grown == Grow(rows, max_grad)
        final == Cap(Prune(grown, max_screen_size), cap)
        created == Len(Clones(rows, max_grad)) + Len(Children(rows, max_grad))
    IN  [rows |-> final, created |-> created,
         deleted |-> Len(rows) + created - Len(final)]

\* a slip of line 166: the cap is not handed on
DensifyCallNoCap(rows, i) ==
    DensifyAndPrune(rows, densify_grad_threshold, size_threshold(i), None)

\* line 166: the call, with the arguments train.py passes
DensifyCall(rows, i) ==
    DensifyAndPrune(rows, densify_grad_threshold, size_threshold(i), num_max)

\* lines 165-166
Densify ==
    /\ pc = "densify"
    /\ LET res == DensifyCall(Rows, iteration)
           new == res.rows
       IN /\ n_created' = res.created
          /\ n_deleted' = res.deleted
          /\ xyz' = [i \in 1..Len(new) |-> new[i].p]
          /\ xyz_gradient_accum' = [i \in 1..Len(new) |-> new[i].accum]
          /\ denom' = [i \in 1..Len(new) |-> new[i].dn]
          /\ max_radii2D' = [i \in 1..Len(new) |-> new[i].radius]
          /\ optimizer' = [i \in 1..Len(new) |-> new[i].mom]
    /\ epoch' = epoch + 1
    /\ trace' = Append(trace, "densify")
    /\ pc' = AfterDensifyAndPrune(iteration)
    /\ UNCHANGED <<cfg, telemetry, history, baseline, iteration, active_sh_degree, KNN_index, render_pkg,
                   viewspace_grad, geo, saved>>

\* gaussians.findKNN(): a graph over the population as it is now
findKNN == Some([n |-> Len(xyz), epoch |-> epoch])

\* line 167
FindKNN ==
    /\ pc = "findKNN"
    /\ KNN_index' = findKNN
    /\ trace' = Append(trace, "findKNN")
    /\ pc' = AfterDensify(iteration)
    /\ UNCHANGED <<cfg, telemetry, history, baseline, iteration, active_sh_degree, population, epoch, render_pkg,
                   viewspace_grad, geo, saved, n_created, n_deleted>>

\* a slip of reset_opacity: every opacity lowered by one level
reset_opacity_by_one(pop) ==
    [i \in 1..Len(pop) |-> [pop[i] EXCEPT !.opacity = Max2(0, pop[i].opacity - 1)]]

\* gaussians.reset_opacity(): every opacity to the floor, nothing else touched
reset_opacity(pop) == [i \in 1..Len(pop) |-> [pop[i] EXCEPT !.opacity = OpacityFloor]]

\* line 171
ResetOpacity ==
    /\ pc = "reset"
    /\ xyz' = reset_opacity(xyz)
    /\ trace' = Append(trace, "reset")
    /\ pc' = "optimizer"
    /\ UNCHANGED <<cfg, telemetry, history, baseline, iteration, active_sh_degree, stats, optimizer, KNN_index, epoch,
                   render_pkg, viewspace_grad, geo, saved, n_created, n_deleted>>

\* line 174
Refresh ==
    /\ pc = "refresh"
    /\ KNN_index' = findKNN
    /\ trace' = Append(trace, "refresh")
    /\ pc' = "optimizer"
    /\ UNCHANGED <<cfg, telemetry, history, baseline, iteration, active_sh_degree, population, epoch, render_pkg,
                   viewspace_grad, geo, saved, n_created, n_deleted>>

\* the effect of one optimizer step on the opacities: none, or the first
\* primitive fades by one level
Fade(pop, dim) ==
    [i \in 1..Len(pop) |->
        IF dim = 1 /\ i = 1 /\ pop[i].opacity > 0
        THEN [pop[i] EXCEPT !.opacity = pop[i].opacity - 1] ELSE pop[i]]

\* lines 176-187 on the training state: optimizer.step() moves the
\* parameters and the momentum, optimizer.zero_grad() then clears the
\* gradients of the optimizer's parameters; the render output
\* viewspace_point_tensor and its gradient are not among them
OptimizerTraining ==
    /\ pc = "optimizer"
    /\ IF StepDue(iteration)
       THEN /\ \E dim \in {0, 1} : xyz' = Fade(xyz, dim)
            /\ optimizer' = [i \in 1..Len(optimizer) |-> optimizer[i] + 1]
            /\ trace' = trace \o <<"step", "zero_grad">>
       ELSE UNCHANGED <<xyz, optimizer, trace>>
    /\ pc' = AfterOptimizer(iteration)
    /\ UNCHANGED <<cfg, history, baseline, iteration, active_sh_degree, stats, KNN_index, epoch,
                   render_pkg, viewspace_grad, geo, saved, n_created, n_deleted>>

\* lines 177-178: the running totals, kept only when wandb is there
CumNext(found, cum, n) == IF found THEN cum + n ELSE cum

\* lines 176-187: the wandb totals, then optimizer.step() and
\* optimizer.zero_grad(set_to_none = True)
OptimizerStep ==
    /\ OptimizerTraining
    /\ cum_deleted' = CumNext(WANDB_FOUND, cum_deleted, n_deleted)
    /\ cum_created' = CumNext(WANDB_FOUND, cum_created, n_created)
    /\ logged' = logged \cup (IF WANDB_FOUND THEN {"cum_deleted", "cum_created"} ELSE {})

\* line 191: (gaussians.capture(), iteration)
Snapshot ==
    [iteration |-> iteration, n |-> Len(xyz), xyz |-> xyz,
     xyz_gradient_accum |-> xyz_gradient_accum, denom |-> denom,
     max_radii2D |-> max_radii2D, optimizer |-> optimizer,
     active_sh_degree |-> active_sh_degree]

\* lines 189-191: torch.save((gaussians.capture(), iteration), ...)
Checkpoint ==
    /\ pc = "checkpoint"
    /\ IF CheckpointDue(iteration)
       THEN /\ saved' = saved \cup {Snapshot}
            /\ trace' = Append(trace, "checkpoint")
       ELSE UNCHANGED <<saved, trace>>
    /\ pc' = "end"
    /\ UNCHANGED <<cfg, telemetry, history, baseline, iteration, active_sh_degree, population, KNN_index, epoch,
                   render_pkg, viewspace_grad, geo, n_created, n_deleted>>

Next ==
    \/ LoopHead
    \/ Render
    \/ Loss
    \/ Backward
    \/ Report
    \/ Stats
    \/ Densify
    \/ FindKNN
    \/ ResetOpacity
    \/ Refresh
    \/ OptimizerStep
    \/ Checkpoint

Spec == Init /\ [][Next]_vars

\* --------------------------------------------------- resuming from a checkpoint
\* a slip of line 63: first_iter is not advanced, iteration c runs again
ResumeFromRepeating(s) == s.iteration - 1

\* lines 49 and 63: the loop resumes after the counter stored in the checkpoint
ResumeFrom(s) == s.iteration

\* lines 43-66 of a second run of the same configuration, started with
\* --start_checkpoint on a file the finished run wrote
Restore ==
    /\ pc = "done"
    /\ baseline = None
    /\ \E s \in saved :
          /\ first_iter' = ResumeFrom(s)
          /\ iteration' = ResumeFrom(s)
          /\ xyz' = s.xyz
          /\ xyz_gradient_accum' = s.xyz_gradient_accum
          /\ denom' = s.denom
          /\ max_radii2D' = s.max_radii2D
          /\ optimizer' = s.optimizer
          /\ active_sh_degree' = s.active_sh_degree
          /\ baseline' = Some([history |-> history, snapshot |-> s])
    /\ history' = <<>>
    /\ saved' = {}
    /\ KNN_index' = None
    /\ epoch' = 1
    /\ pc' = "start"
    /\ trace' = <<>>
    /\ render_pkg' = None
    /\ viewspace_grad' = None
    /\ geo' = None
    /\ n_created' = 0
    /\ n_deleted' = 0
    /\ cum_created' = 0
    /\ cum_deleted' = 0
    /\ UNCHANGED <<opt, white_background, num_max, checkpoint_iterations,
                   testing_iterations, tb_writer, WANDB_FOUND, logged>>

NextResume ==
    \/ Next
    \/ Restore

\* the runs that are resumed: no sinks, checkpoints after the first and the
\* last iteration, uncapped, black background, densification open from the
\* start, a full horizon left to run
InitResume ==
    /\ InitTraining
    /\ tb_writer = FALSE
    /\ WANDB_FOUND = FALSE
    /\ checkpoint_iterations = {first_iter + 1, opt.iterations}
    /\ num_max = None
    /\ ~white_background
    /\ opt.densify_from_iter = first_iter
    /\ opt.iterations = first_iter + Horizon

SpecResume == InitResume /\ [][NextResume]_vars

\* ------------------------------------------------------------- telemetry
\* runs with any combination of the two sinks, over the schedules that
\* densify at every iteration from the first on
InitTelemetry ==
    /\ InitTraining
    /\ checkpoint_iterations = {opt.iterations - 1, opt.iterations}
    /\ tb_writer \in BOOLEAN
    /\ WANDB_FOUND \in BOOLEAN
    /\ num_max = None
    /\ ~white_background
    /\ opt.densify_from_iter = first_iter
    /\ opt.iterations = first_iter + Horizon
    /\ opt.densification_interval = 1

SpecTelemetry == InitTelemetry /\ [][Next]_vars

\* one step of the loop with both sinks absent, on the training state
NextQuiet ==
    \/ LoopHead
    \/ Render
    \/ Loss
    \/ Backward
    \/ ReportTraining(FALSE, FALSE)
    \/ Stats
    \/ Densify
    \/ FindKNN
    \/ ResetOpacity
    \/ Refresh
    \/ OptimizerTraining
    \/ Checkpoint

\* ------------------------------------------------------------------- claims
\* number of densify_and_prune calls made so far in this run
DensifyCalls == epoch - (IF first_iter = 0 THEN 0 ELSE 1)
\* the iteration's loop body has run to its end
IterationDone == pc = "end"

\* C1: at every point of the loop between two operations, the primitive set,
\* the three gradient-statistics arrays and the optimizer state have the
\* same length.
C1_LengthsAligned ==
    /\ Len(xyz_gradient_accum) = Len(xyz)
    /\ Len(denom) = Len(xyz)
    /\ Len(max_radii2D) = Len(xyz)
    /\ Len(optimizer) = Len(xyz)

\* C1 witness: a densify_and_prune call has just changed the population size
\* after a statistics update that touched only part of the population.
C1_Witness ==
    /\ pc = "findKNN"
    /\ Len(xyz) > Len(InitialXyz)
    /\ n_deleted > 0
    /\ \E i \in DOMAIN render_pkg[1].visibility_filter :
          ~render_pkg[1].visibility_filter[i]
    /\ C1_LengthsAligned

\* C2: with a cap M configured, the population is at most M right after
\* every densify_and_prune call and at every later point of the run.
C2_CapHolds ==
    (num_max # None /\ DensifyCalls > 0) => Len(xyz) <= num_max[1]

\* C2 witness: growth went past the cap and the call brought it back to it,
\* from a population that was above the cap before the call.
C2_Witness ==
    /\ pc = "findKNN"
    /\ num_max = Some(1)
    /\ DensifyCalls = 1
    /\ n_created > 0
    /\ Len(xyz) = 1

\* C3: whenever the Geo Loss term is computed, the graph it indexes was
\* built at or after the last index-changing event, for a population of the
\* length of the mask that indexes it; with no graph the term is skipped.
C3_GraphFreshWhenUsed ==
    /\ geo # None =>
          /\ geo[1].graph.epoch = geo[1].pop_epoch
          /\ geo[1].graph.n = geo[1].mask_len
    /\ (KNN_index = None /\ pc \in {"backward", "report"}) => geo = None

\* C3 witness: the term is computed with a graph built by a rebuild that
\* followed a population change.
C3_Witness ==
    /\ pc = "backward"
    /\ geo # None
    /\ DensifyCalls > 0
    /\ geo[1].graph.n # Len(InitialXyz)

\* C4: in the iteration's operation sequence every densify_and_prune is
\* directly followed by findKNN, and the graph built then is for the
\* population as the call left it.
C4_RebuildFollowsDensify ==
    /\ \A k \in DOMAIN trace :
          trace[k] = "densify" =>
             IF k < Len(trace) THEN trace[k + 1] = "findKNN" ELSE pc = "findKNN"
    /\ (trace # <<>> /\ trace[Len(trace)] = "findKNN") =>
          KNN_index = Some([n |-> Len(xyz), epoch |-> epoch])

\* C4 witness: densify, rebuild, then the opacity reset of the same iteration.
C4_Witness ==
    /\ Has(trace, "densify")
    /\ trace[Len(trace)] = "reset"
    /\ trace[Len(trace) - 1] = "findKNN"
    /\ n_created > 0

\* C5: in an iteration that calls densify_and_prune the statistics update
\* has run exactly once, after the backward pass and before the call.
C5_StatsBeforeDensify ==
    Has(trace, "densify") =>
       /\ Count(trace, "stats") = 1
       /\ Count(trace, "backward") = 1
       /\ Pos(trace, "backward") < Pos(trace, "stats")
       /\ Pos(trace, "stats") < Pos(trace, "densify")

\* C5 witness: a densify_and_prune call whose growth decision used the
\* statistics accumulated in its own iteration.
C5_Witness ==
    /\ pc = "findKNN"
    /\ iteration = first_iter + 1
    /\ Has(trace, "stats")
    /\ n_created > 0

\* C6 as stated: densify_and_prune runs at i exactly when
\* densify_from_iter <= i < densify_until_iter and i is a multiple of the
\* densification interval.
C6_Original ==
    IterationDone =>
       (Has(trace, "densify") <=>
           /\ opt.densify_from_iter <= iteration
           /\ iteration < opt.densify_until_iter
           /\ iteration % opt.densification_interval = 0)

\* C6 amended: densify_and_prune runs at i, once, exactly when
\* densify_from_iter < i < densify_until_iter and i is a multiple of the
\* densification interval; it does not run at i = densify_from_iter.
C6_DensifySchedule ==
    IterationDone =>
       /\ Has(trace, "densify") <=>
             /\ opt.densify_from_iter < iteration
             /\ iteration < opt.densify_until_iter
             /\ iteration % opt.densification_interval = 0
       /\ Count(trace, "densify") <= 1

\* C6 witness: the first iteration after densify_from_iter calls it.
C6_Witness ==
    /\ IterationDone
    /\ Has(trace, "densify")
    /\ iteration = opt.densify_from_iter + 1
    /\ iteration + 1 = opt.densify_until_iter

\* C7 as stated: reset_opacity runs at i exactly when i is inside
\* [densify_from_iter, densify_until_iter) and i is a multiple of the reset
\* interval or (white background and i = densify_from_iter).
C7_Original ==
    IterationDone =>
       (Has(trace, "reset") <=>
           /\ opt.densify_from_iter <= iteration
           /\ iteration < opt.densify_until_iter
           /\ \/ iteration % opt.opacity_reset_interval = 0
              \/ (white_background /\ iteration = opt.densify_from_iter))

\* C7 amended: reset_opacity runs at i exactly when i < densify_until_iter
\* and i is a multiple of the reset interval or (white background and
\* i = densify_from_iter); this includes iterations before densify_from_iter.
C7_ResetSchedule ==
    IterationDone =>
       (Has(trace, "reset") <=>
           /\ iteration < opt.densify_until_iter
           /\ \/ iteration % opt.opacity_reset_interval = 0
              \/ (white_background /\ iteration = opt.densify_from_iter))

\* C7 witness: a reset during warmup, before a window that opens later.
C7_Witness ==
    /\ IterationDone
    /\ Has(trace, "reset")
    /\ iteration < opt.densify_from_iter
    /\ opt.densify_from_iter < opt.densify_until_iter

\* C8 as stated: every i >= densify_until_iter that is a multiple of 3000
\* rebuilds the neighbor graph.
C8_Original ==
    (IterationDone /\ iteration >= opt.densify_until_iter
                   /\ iteration % RefreshInterval = 0)
       => (Has(trace, "refresh") \/ Has(trace, "findKNN"))

\* C8 amended: the post-window rebuild runs at i exactly when
\* i > densify_until_iter and i is a multiple of 3000; at
\* i = densify_until_iter nothing is rebuilt.
C8_RefreshSchedule ==
    IterationDone =>
       /\ Has(trace, "refresh") <=>
             (iteration > opt.densify_until_iter /\ iteration % RefreshInterval = 0)
       /\ iteration >= opt.densify_until_iter => ~Has(trace, "findKNN")

\* C8 witness: the refresh at 3000 built a graph for the current population.
C8_Witness ==
    /\ IterationDone
    /\ Has(trace, "refresh")
    /\ iteration = RefreshInterval
    /\ KNN_index = Some([n |-> Len(xyz), epoch |-> epoch])

\* C9: within an iteration every densify_and_prune and reset_opacity comes
\* after the iteration's render and not after its optimizer step.
C9_MutationBeforeStep ==
    \A k \in DOMAIN trace :
       trace[k] \in {"densify", "reset"} =>
          /\ \A j \in 1..k : trace[j] # "step"
          /\ \E j \in 1..k : trace[j] = "render"

\* C9 witness: an iteration that densified, reset the opacities and stepped.
C9_Witness ==
    /\ Has(trace, "densify")
    /\ Has(trace, "reset")
    /\ Has(trace, "step")
    /\ Pos(trace, "reset") < Pos(trace, "step")

\* the scheduler phase: 0 Warmup, 1 Densifying, 2 PostDensification, 3 Done
Phase ==
    IF pc = "done" THEN 3
    ELSE IF iteration < opt.densify_from_iter THEN 0
    ELSE IF iteration < opt.densify_until_iter THEN 1
    ELSE 2

\* C10: with densify_from_iter <= densify_until_iter <= iterations the phase
\* never moves backwards, and from PostDensification on an iteration calls
\* neither the statistics update nor densify_and_prune nor reset_opacity.
C10_PhaseForward ==
    [][(opt.densify_from_iter <= opt.densify_until_iter
          /\ opt.densify_until_iter <= opt.iterations) =>
          /\ Phase' >= Phase
          /\ Phase' >= 2 =>
                /\ ~Has(trace', "stats")
                /\ ~Has(trace', "densify")
                /\ ~Has(trace', "reset")]_vars

\* C10 witness: a run that densified, left the window and finished.
C10_Witness ==
    /\ pc = "done"
    /\ opt.densify_from_iter <= opt.densify_until_iter
    /\ opt.densify_until_iter <= opt.iterations
    /\ DensifyCalls > 0
    /\ first_iter < opt.densify_from_iter

\* position of a loop-body location in program order
PcIndex(l) ==
    CASE l = "start" -> 0
      [] l = "render" -> 1
      [] l = "loss" -> 2
      [] l = "backward" -> 3
      [] l = "report" -> 4
      [] l = "stats" -> 5
      [] l = "densify" -> 6
      [] l = "findKNN" -> 7
      [] l = "reset" -> 8
      [] l = "refresh" -> 9
      [] l = "optimizer" -> 10
      [] l = "checkpoint" -> 11
      [] l = "end" -> 12
      [] OTHER -> 13
\* steps the run can still take at most: it falls with every step
Remaining ==
    IF pc = "done" THEN 0
    ELSE (Max2(0, opt.iterations - iteration) + 1) * 14 - PcIndex(pc)

\* C11: the loop runs the iterations first_iter+1 .. iterations, each once,
\* in increasing order with step 1, never one above iterations, none at all
\* when first_iter >= iterations; every step brings the end of the run
\* nearer, so the loop terminates.
C11_LoopRange ==
    [][/\ Remaining' < Remaining
       /\ Remaining' >= 0
       /\ iteration' \in {iteration, iteration + 1}
       /\ \A k \in DOMAIN history' : history'[k].iteration = first_iter + k
       /\ pc' \notin {"start", "done"} =>
             /\ iteration' = first_iter + Len(history') + 1
             /\ iteration' <= opt.iterations
       /\ pc' = "done" => Len(history') = Max2(0, opt.iterations - first_iter)]_vars

\* C11 witness: a run resumed from a checkpoint has executed all of its
\* iterations and stopped.
C11_Witness ==
    /\ pc = "done"
    /\ first_iter > 0
    /\ Len(history) = Horizon
    /\ history[Horizon].iteration = opt.iterations

\* the checkpoint this iteration wrote holds the state as it is now
CheckpointHoldsState ==
    (IterationDone /\ Has(trace, "checkpoint")) =>
       /\ Snapshot \in saved
       /\ \A s \in saved : s.iteration = iteration => s = Snapshot
\* a resumed run starts from the stored state and continues after counter c
ResumesAfterCounter ==
    baseline # None =>
       /\ first_iter = baseline[1].snapshot.iteration
       /\ \A k \in DOMAIN history :
             history[k].iteration = baseline[1].snapshot.iteration + k
       /\ pc = "start" =>
             /\ xyz = baseline[1].snapshot.xyz
             /\ optimizer = baseline[1].snapshot.optimizer
             /\ Len(xyz) = baseline[1].snapshot.n
             /\ iteration = baseline[1].snapshot.iteration
             /\ active_sh_degree = baseline[1].snapshot.active_sh_degree
       /\ pc = "done" => Len(history) = opt.iterations - first_iter
\* every iteration of the resumed run fired what the uninterrupted run fired
SameScheduleAsBaseline ==
    baseline # None =>
       \A k \in DOMAIN history :
          \E j \in DOMAIN baseline[1].history :
             /\ baseline[1].history[j].iteration = history[k].iteration
             /\ baseline[1].history[j].events = history[k].events

\* C12 as stated: the checkpoint of iteration c is written after iteration
\* c's optimizer step and holds that state with counter c; a run restored
\* from it resumes at c+1 and fires the scheduled operations of c+1..total
\* at the iterations of the uninterrupted run.
C12_Original ==
    /\ (IterationDone /\ Has(trace, "checkpoint")) =>
          (Has(trace, "step") /\ Pos(trace, "step") < Pos(trace, "checkpoint"))
    /\ CheckpointHoldsState
    /\ ResumesAfterCounter
    /\ SameScheduleAsBaseline

\* C12 amended: the checkpoint of iteration c holds the state at the end of
\* iteration c with counter c: after that iteration's optimizer step when
\* c < iterations, and with no step taken in iteration c when
\* c = iterations; resuming and the schedule are as stated.
C12_CheckpointResume ==
    /\ (IterationDone /\ Has(trace, "checkpoint")) =>
          IF iteration < opt.iterations
          THEN Has(trace, "step") /\ Pos(trace, "step") < Pos(trace, "checkpoint")
          ELSE ~Has(trace, "step")
    /\ CheckpointHoldsState
    /\ ResumesAfterCounter
    /\ SameScheduleAsBaseline

\* C12 witness: a run resumed from a mid-run checkpoint has finished after
\* several iterations, one of which escalated the harmonic degree, densified
\* and rebuilt the graph at an iteration number whose offset from the start
\* of the resumed run differs from its offset in the first run, and one of
\* which reset the opacities, as the first run did.
C12_Witness ==
    /\ baseline # None
    /\ pc = "done"
    /\ baseline[1].snapshot.iteration < opt.iterations
    /\ Len(history) >= 2
    /\ opt.densification_interval = 2
    /\ \E k \in DOMAIN history :
          {"oneupSH", "densify", "findKNN"} \subseteq history[k].events
    /\ \E k \in DOMAIN history : "reset" \in history[k].events
    /\ SameScheduleAsBaseline


\* C13: resetOpacity leaves the population size, every non-opacity attribute,
\* the statistics and the optimizer momentum unchanged, sets every opacity to
\* at most the floor, and applying it a second time changes nothing.
C13_ResetOpacity ==
    [][pc = "reset" =>
          /\ Len(xyz') = Len(xyz)
          /\ \A i \in DOMAIN xyz : xyz'[i].scaling = xyz[i].scaling
          /\ \A i \in DOMAIN xyz : [xyz'[i] EXCEPT !.opacity = xyz[i].opacity] = xyz[i]
          /\ stats' = stats
          /\ optimizer' = optimizer
          /\ \A i \in DOMAIN xyz' : xyz'[i].opacity <= OpacityFloor
          /\ reset_opacity(xyz') = xyz'
          /\ Len(reset_opacity(xyz')) = Len(xyz')]_vars

\* C13 witness: a reset has just lowered two primitives with unequal scales
\* and nonzero momentum to the floor.
C13_Witness ==
    /\ pc = "optimizer"
    /\ Has(trace, "reset")
    /\ Len(xyz) >= 2
    /\ xyz[1].scaling # xyz[2].scaling
    /\ \E i \in DOMAIN optimizer : optimizer[i] > 0
    /\ \A i \in DOMAIN xyz : xyz[i].opacity = OpacityFloor


\* the indices of the rows the growth step selects, clones and splits
GrowthCandidates == {i \in DOMAIN Rows : IsCandidate(Rows[i], densify_grad_threshold)}
CloneCandidates == {i \in DOMAIN Rows : IsCloneCandidate(Rows[i], densify_grad_threshold)}
SplitCandidates == {i \in DOMAIN Rows : IsSplitCandidate(Rows[i], densify_grad_threshold)}

\* C14: the growth candidates are partitioned into clone candidates (scale
\* at most the dense scale) and split candidates (scale above it); a clone
\* candidate is kept and adds one duplicate, a split candidate is removed
\* and replaced by two children, so the population before pruning is
\* N + #clone candidates + #split candidates.
C14_GrowthPartition ==
    pc = "densify" =>
       LET thr == densify_grad_threshold
           keep(r) == ~IsSplitCandidate(r, thr)
           isParent(r) == IsSplitCandidate(r, thr)
           survivors == SelectSeq(Rows, keep)
           grown == Grow(Rows, thr)
       IN  /\ CloneCandidates \cup SplitCandidates = GrowthCandidates
           /\ CloneCandidates \cap SplitCandidates = {}
           /\ \A i \in CloneCandidates : Rows[i].p.scaling <= DenseScale
           /\ \A i \in SplitCandidates : Rows[i].p.scaling > DenseScale
           /\ Len(Clones(Rows, thr)) = Cardinality(CloneCandidates)
           /\ Len(Children(Rows, thr)) = 2 * Cardinality(SplitCandidates)
           /\ Len(survivors) = Len(Rows) - Cardinality(SplitCandidates)
           /\ \A i \in CloneCandidates :
                 /\ \E j \in DOMAIN survivors : survivors[j] = Rows[i]
                 /\ \E j \in DOMAIN Clones(Rows, thr) : Clones(Rows, thr)[j].p = Rows[i].p
           /\ grown = survivors \o Clones(Rows, thr) \o Children(Rows, thr)
           /\ Len(grown) = Len(Rows) + Cardinality(CloneCandidates)
                                     + Cardinality(SplitCandidates)
           /\ DensifyCall(Rows, iteration).created =
                 Cardinality(CloneCandidates) + 2 * Cardinality(SplitCandidates)

\* C14 witness: a densification is about to run on a population holding a
\* clone candidate and a split candidate.
C14_Witness ==
    /\ pc = "densify"
    /\ CloneCandidates # {}
    /\ SplitCandidates # {}


\* C15: a primitive whose accumulation denominator is 0 has average
\* gradient 0, so with the positive threshold it is neither cloned nor
\* split; the average is defined in every reachable state.
C15_UnseenNeverGrown ==
    /\ densify_grad_threshold > 0
    /\ \A i \in DOMAIN Rows :
          /\ AvgGrad(Rows[i]) >= 0
          /\ Rows[i].dn > 0 => AvgGrad(Rows[i]) * Rows[i].dn <= Rows[i].accum
          /\ Rows[i].dn = 0 =>
                /\ AvgGrad(Rows[i]) = 0
                /\ ~IsCandidate(Rows[i], densify_grad_threshold)
                /\ i \notin CloneCandidates \cup SplitCandidates
    /\ (pc = "densify" /\ \A i \in DOMAIN Rows : Rows[i].dn = 0) =>
          /\ DensifyCall(Rows, iteration).created = 0
          /\ Grow(Rows, densify_grad_threshold) = Rows

\* C15 witness: a densification is about to run on a population with a
\* never-seen primitive next to a growth candidate.
C15_Witness ==
    /\ pc = "densify"
    /\ \E i \in DOMAIN Rows : Rows[i].dn = 0
    /\ GrowthCandidates # {}


\* C16: whatever telemetry sinks are present, every step of the loop changes
\* the training state (population, statistics, optimizer, graph, counters
\* and the sequence of operations performed) exactly as the step of a run
\* with both sinks absent does on the same render and loss results; the
\* sinks only ever receive.
C16_TelemetryInert ==
    [][/\ NextQuiet
       /\ (~tb_writer /\ ~WANDB_FOUND) => UNCHANGED telemetry
       /\ pc' = "done" => Len(history') = Horizon]_vars

\* C16 witness: a run with both sinks present has finished; the sinks
\* received metrics and created-counts while the run densified and stepped.
C16_Witness ==
    /\ pc = "done"
    /\ tb_writer
    /\ WANDB_FOUND
    /\ {"train_loss_patches/total_loss", "n_gaussians", "train/psnr", "cum_created",
        "test_full/psnr", "total_points", "test_full_view_e0/render"} \subseteq logged
    /\ cum_created > 0
    /\ \E k \in DOMAIN history : {"densify", "findKNN"} \subseteq history[k].events


\* C17 as stated: the statistics update runs exactly once in every
\* iteration, those at and after densify_until_iter included.
C17_Original ==
    IterationDone => Count(trace, "stats") = 1

\* C17 amended: the statistics update runs exactly once in every iteration
\* before densify_until_iter, after that iteration's backward pass, and not
\* at all in an iteration at or after densify_until_iter.
C17_StatsSchedule ==
    /\ IterationDone =>
          Count(trace, "stats") = (IF iteration < opt.densify_until_iter THEN 1 ELSE 0)
    /\ Count(trace, "stats") <= 1
    /\ Has(trace, "stats") =>
          /\ iteration < opt.densify_until_iter
          /\ Has(trace, "backward")
          /\ Pos(trace, "backward") < Pos(trace, "stats")

\* C17 witness: the iteration numbered densify_until_iter has ended without
\* a statistics update, after an earlier iteration that made one.
C17_Witness ==
    /\ IterationDone
    /\ iteration = opt.densify_until_iter
    /\ ~Has(trace, "stats")
    /\ history # <<>>
    /\ \E i \in DOMAIN denom : denom[i] > 0

\* C18 as stated: every iteration, the final one included, takes the
\* optimizer step and the gradient clear, and a checkpoint of that
\* iteration is written after the step.
C18_Original ==
    IterationDone =>
       /\ Count(trace, "step") = 1
       /\ Count(trace, "zero_grad") = 1
       /\ Has(trace, "checkpoint") => Pos(trace, "step") < Pos(trace, "checkpoint")

\* C18 amended: every iteration before the final one makes the optimizer
\* step and then the gradient clear, exactly once each, and a checkpoint of
\* such an iteration is written after both; the final iteration
\* (iteration = iterations) makes neither call, and its checkpoint follows
\* no step.
C18_StepSchedule ==
    /\ IterationDone =>
          IF iteration < opt.iterations
          THEN /\ Count(trace, "step") = 1
               /\ Count(trace, "zero_grad") = 1
               /\ Pos(trace, "zero_grad") = Pos(trace, "step") + 1
               /\ Has(trace, "checkpoint") =>
                     Pos(trace, "zero_grad") < Pos(trace, "checkpoint")
          ELSE /\ Count(trace, "step") = 0
               /\ Count(trace, "zero_grad") = 0
    /\ Count(trace, "step") <= 1
    /\ Count(trace, "zero_grad") = Count(trace, "step")
    /\ Has(trace, "step") => Pos(trace, "backward") < Pos(trace, "step")
    /\ Has(trace, "checkpoint") => pc = "end"

\* C18 witness: after an iteration that stepped, the final iteration has
\* ended with its checkpoint written and neither the step nor the gradient
\* clear made.
C18_Witness ==
    /\ IterationDone
    /\ iteration = opt.iterations
    /\ Has(trace, "checkpoint")
    /\ ~Has(trace, "step")
    /\ ~Has(trace, "zero_grad")
    /\ Len(history) = Horizon - 1
    /\ \E i \in DOMAIN optimizer : optimizer[i] > 0

\* C19 as stated: densify_and_prune and reset_opacity each run at most once
\* in an iteration, and when both run the order is densify_and_prune, graph
\* rebuild, reset_opacity, optimizer step.
C19_Original ==
    /\ Count(trace, "densify") <= 1
    /\ Count(trace, "reset") <= 1
    /\ (IterationDone /\ Has(trace, "densify") /\ Has(trace, "reset")) =>
          /\ Pos(trace, "densify") < Pos(trace, "findKNN")
          /\ Pos(trace, "findKNN") < Pos(trace, "reset")
          /\ Pos(trace, "reset") < Pos(trace, "step")

\* C19 amended: densify_and_prune and reset_opacity each run at most once in
\* an iteration, also when both reset triggers are true; when both run the
\* order is densify_and_prune, graph rebuild, reset_opacity, and then the
\* optimizer step if the iteration is not the final one: the final iteration
\* takes no step after them.
C19_OnceAndOrdered ==
    /\ Count(trace, "densify") <= 1
    /\ Count(trace, "reset") <= 1
    /\ (IterationDone /\ ResetDue(iteration) /\ InDensifyBlock(iteration)) =>
          Count(trace, "reset") = 1
    /\ (IterationDone /\ Has(trace, "densify") /\ Has(trace, "reset")) =>
          /\ Count(trace, "findKNN") = 1
          /\ Pos(trace, "densify") < Pos(trace, "findKNN")
          /\ Pos(trace, "findKNN") < Pos(trace, "reset")
          /\ IF iteration < opt.iterations
             THEN Pos(trace, "reset") < Pos(trace, "step")
             ELSE ~Has(trace, "step")

\* C19 witness: an iteration at a multiple of the reset interval has ended
\* having densified once, rebuilt the graph, reset once and stepped, in
\* that order.
C19_Witness ==
    /\ IterationDone
    /\ Count(trace, "densify") = 1
    /\ Count(trace, "reset") = 1
    /\ Pos(trace, "densify") < Pos(trace, "findKNN")
    /\ Pos(trace, "findKNN") < Pos(trace, "reset")
    /\ Pos(trace, "reset") < Pos(trace, "step")
    /\ iteration % opt.opacity_reset_interval = 0


\* C20: the render outputs (visibility mask, screen radii, view-space
\* gradients) and the neighbour graph index the population only while it has
\* the length they were produced for: at the Geo Loss and at the statistics
\* update their lengths are the population's, the mask that indexes the
\* graph has the graph's length, and nothing in an iteration uses the render
\* outputs after that iteration's densify_and_prune.
C20_ShapesAgree ==
    /\ pc \in {"loss", "backward", "report", "stats"} =>
          /\ Len(render_pkg[1].visibility_filter) = Len(xyz)
          /\ Len(render_pkg[1].radii) = Len(xyz)
    /\ pc = "loss" =>
          (KNN_index # None =>
              KNN_index[1].n = Len(render_pkg[1].visibility_filter))
    /\ pc = "stats" =>
          /\ Len(viewspace_grad[1]) = Len(xyz_gradient_accum)
          /\ Len(render_pkg[1].visibility_filter) = Len(denom)
          /\ Len(render_pkg[1].radii) = Len(max_radii2D)
    /\ geo # None =>
          /\ geo[1].graph.n = geo[1].mask_len
          /\ geo[1].graph.epoch = geo[1].pop_epoch
    /\ \A k \in DOMAIN trace :
          trace[k] = "densify" =>
             \A j \in (k + 1)..Len(trace) :
                trace[j] \notin {"render", "loss", "backward", "stats"}

\* C20 witness: an iteration has ended whose Geo Loss indexed the graph and
\* whose densify_and_prune then changed the population length, leaving the
\* render outputs of the old length unused.
C20_Witness ==
    /\ IterationDone
    /\ geo # None
    /\ Has(trace, "stats")
    /\ Has(trace, "densify")
    /\ render_pkg # None
    /\ Len(render_pkg[1].visibility_filter) # Len(xyz)
    /\ KNN_index # None
    /\ KNN_index[1].n = Len(xyz)
====
